---- MODULE Spec2Model ----
(***************************************************************************)
(* Model of app.py, the Streamlit "Auto Email Draft Assistant".            *)
(*                                                                         *)
(* The script is re-executed from its first line on every user             *)
(* interaction; one action of the model is one such execution.             *)
(*                                                                         *)
(* A Python str is modelled as a sequence of lexical tokens.  Every token  *)
(* is a TLA+ string that is either made of whitespace only or begins and   *)
(* ends with a non-whitespace character, so that str.strip() and len()     *)
(* computed on tokens agree with the character-level results.              *)
(***************************************************************************)
EXTENDS Integers, Sequences, FiniteSets, TLC

----------------------------------------------------------------------------
(* Bounds of the model *)

\* longest raw engine output, counted in pieces (see Pieces), when every
\* form content is submitted once
MaxPieces == 2
\* longest raw engine output, counted in pieces, within a session
MaxSessionPieces == 1
\* how many times the model loader may raise before it succeeds
MaxFailedLoads == 2

----------------------------------------------------------------------------
(* Strings *)

NL    == "\n"
SP    == " "
IND12 == "            "
IND20 == "                    "

Whitespace == {NL, SP, IND12, IND20}

\* len(s)
RECURSIVE StrLen(_)
StrLen(s) == IF s = <<>> THEN 0 ELSE Len(Head(s)) + StrLen(Tail(s))

RECURSIVE LStrip(_)
LStrip(s) ==
    IF s # <<>> /\ Head(s) \in Whitespace THEN LStrip(Tail(s)) ELSE s

RECURSIVE RStrip(_)
RStrip(s) ==
    IF s # <<>> /\ s[Len(s)] \in Whitespace
    THEN RStrip(SubSeq(s, 1, Len(s) - 1))
    ELSE s

\* s is not empty and s.strip() is
IsBlank(s) == s # <<>> /\ \A i \in 1..Len(s) : s[i] \in Whitespace

\* s.strip()
Strip(s) == RStrip(LStrip(s))

\* does old occur in s at index i
OccursAt(s, old, i) ==
    /\ i >= 1
    /\ i + Len(old) - 1 <= Len(s)
    /\ old # <<>> => s[i] = old[1]
    /\ SubSeq(s, i, i + Len(old) - 1) = old

\* s.find(old), 1-based, 0 when absent
Find(s, old) ==
    LET hits == {i \in 1..Len(s) : OccursAt(s, old, i)}
    IN  IF hits = {} THEN 0 ELSE CHOOSE i \in hits : \A j \in hits : i <= j

\* s.replace(old, "", 1): a replace that stops after the first occurrence
ReplaceFirst(s, old) ==
    LET i == Find(s, old)
    IN  IF old = <<>> \/ i = 0 THEN s
        ELSE SubSeq(s, 1, i - 1) \o SubSeq(s, i + Len(old), Len(s))

\* s.replace(old, ""): every non-overlapping occurrence, left to right
RECURSIVE Replace(_, _)
Replace(s, old) ==
    LET i == Find(s, old)
    IN  IF old = <<>> \/ i = 0 THEN s
        ELSE SubSeq(s, 1, i - 1)
                 \o Replace(SubSeq(s, i + Len(old), Len(s)), old)

----------------------------------------------------------------------------
(* Form values *)

Tones == {"Formal", "Friendly", "Apologetic", "Urgent", "Professional", "Casual"}

\* tone.lower()
Lower(tone) ==
    CASE tone = "Formal"       -> "formal"
      [] tone = "Friendly"     -> "friendly"
      [] tone = "Apologetic"   -> "apologetic"
      [] tone = "Urgent"       -> "urgent"
      [] tone = "Professional" -> "professional"
      [] tone = "Casual"       -> "casual"

\* what the user may type in each text widget: nothing, blanks, or a text
RecipientValues == {<<>>, <<SP>>, <<"John Doe">>}
SubjectValues   == {<<>>, <<SP>>, <<"Meeting Request">>}
PurposeValues   == {<<>>, <<"Apologizing for missing the meeting">>}
NameValues      == {<<>>, <<SP>>, <<"Jane Smith">>}
PositionValues  == {<<>>, <<SP>>, <<"Marketing Manager">>}

\* the widgets' values when a session starts
DefaultWidgets ==
    [recipient |-> <<>>, subject |-> <<>>, purpose |-> <<>>,
     tone |-> "Formal", include_greeting |-> TRUE, include_signature |-> TRUE,
     sender_name |-> <<>>, sender_position |-> <<>>]

\* the names bound in the script's namespace once the form has run:
\* sender_name and sender_position are assigned only under include_signature
Bound(w) ==
    {"recipient", "subject", "purpose", "tone",
     "include_greeting", "include_signature"}
        \cup (IF w.include_signature
              THEN {"sender_name", "sender_position"} ELSE {})

----------------------------------------------------------------------------
(* Prompt construction *)

BaseClause(w) == <<NL, IND12, "Write a", SP, Lower(w.tone), SP, "email", NL, IND12>>

GreetingClause(w) == <<SP, "that starts with a greeting to", SP>> \o w.recipient

PurposeClause(w) == <<SP, "about the following:", SP>> \o w.purpose \o <<".">>

SubjectClause(w) == <<SP, "The email subject is:", SP, "'">> \o w.subject \o <<"'.">>

StructureClause ==
    <<SP, "The email should be professional, well-structured with clear paragraphs.">>

signature(w) ==
    w.sender_name
        \o (IF w.sender_position # <<>> THEN <<",", SP>> \o w.sender_position
            ELSE <<>>)

SignatureClause(w) ==
    <<SP, "End the email with a proper closing and signature:", SP>>
        \o signature(w) \o <<".">>

HasGreeting(w)  == w.include_greeting /\ w.recipient # <<>>
HasSubject(w)   == w.subject # <<>>
HasSignature(w) == w.include_signature /\ w.sender_name # <<>>

\* the clauses with the subject clause appended after the structure clause
prompt_template_reordered(w) ==
    BaseClause(w)
        \o (IF HasGreeting(w) THEN GreetingClause(w) ELSE <<>>)
        \o PurposeClause(w)
        \o StructureClause
        \o (IF HasSubject(w) THEN SubjectClause(w) ELSE <<>>)
        \o (IF HasSignature(w) THEN SignatureClause(w) ELSE <<>>)

prompt_template(w) ==
    BaseClause(w)
        \o (IF HasGreeting(w) THEN GreetingClause(w) ELSE <<>>)
        \o PurposeClause(w)
        \o (IF HasSubject(w) THEN SubjectClause(w) ELSE <<>>)
        \o StructureClause
        \o (IF HasSignature(w) THEN SignatureClause(w) ELSE <<>>)

----------------------------------------------------------------------------
(* Post-processing *)

MinLength == 50

\* a threshold test that is off by one: len(email_text) <= 50
UsableAbove(text) == StrLen(text) > MinLength

\* the condition under which the generated text is kept
Usable(text) == ~(StrLen(text) < MinLength)

\* the f-string of the fallback; evaluating it reads sender_name, which
\* raises NameError when the name is not bound
FallbackRaises(w) == "sender_name" \notin Bound(w)

FallbackGreeting(w) ==
    IF w.recipient # <<>> THEN <<"Dear", SP>> \o w.recipient \o <<",">>
    ELSE <<"Hello,">>

FallbackClosing(w) ==
    IF w.tone = "Formal" \/ w.tone = "Professional" THEN <<"Best regards,">>
    ELSE <<"Thanks,">>

FallbackText(w) ==
    <<NL, IND20>> \o FallbackGreeting(w)
        \o <<NL, IND20, NL, IND20>> \o w.purpose
        \o <<NL, IND20, NL, IND20>> \o FallbackClosing(w)
        \o <<NL, IND20>> \o w.sender_name
        \o <<NL, IND20>> \o w.sender_position
        \o <<NL, IND20>>

----------------------------------------------------------------------------
(* The generation engine: a black box that returns a text or raises *)

T49 == "Lorem ipsum dolor sit amet, consectetur adipiscin"
T50 == "Lorem ipsum dolor sit amet, consectetur adipiscing"

\* what a raw output is made of: an echo of the prompt, a blank, or a text
\* of 49 or of 50 characters
Pieces == {"echo", "ws", "t49", "t50"}

Shapes(max) == UNION {[1..n -> Pieces] : n \in 0..max}

PieceText(piece, p) ==
    CASE piece = "echo" -> p
      [] piece = "ws"   -> <<SP>>
      [] piece = "t49"  -> <<T49>>
      [] piece = "t50"  -> <<T50>>

\* the 'generated_text' of a shape for the prompt p
RECURSIVE Expand(_, _)
Expand(shape, p) ==
    IF shape = <<>> THEN <<>>
    ELSE PieceText(Head(shape), p) \o Expand(Tail(shape), p)

EngineResults(max) ==
    {[raises |-> TRUE, shape |-> <<>>]}
        \cup {[raises |-> FALSE, shape |-> s] : s \in Shapes(max)}

NoEngine == [raises |-> FALSE, shape |-> <<>>]

----------------------------------------------------------------------------
(* State *)

VARIABLES
    cache,        \* st.cache_resource entry of load_model: 0 or a handle
    attempts,     \* executions of the body of load_model so far
    widgets,      \* the session's widget values
    trigger,      \* the interaction that started the last run
    page,         \* the elements the last run put on the page
    prompt,       \* prompt_template of the last run, <<>> if none was built
    calls,        \* calls of generator(...) in the last run
    shape,        \* shape of the raw output the engine returned
    stripped,     \* email_text right after replace().strip()
    branch,       \* "generated", "fallback" or "none"
    email_text,   \* email_text passed to st.markdown, <<>> if none
    error         \* exception caught by the handler: "none", "engine", "NameError"

vars == <<cache, attempts, widgets, trigger, page, prompt, calls, shape,
          stripped, branch, email_text, error>>

NoHandle == 0

Init ==
    /\ cache = NoHandle
    /\ attempts = 0
    /\ widgets = DefaultWidgets
    /\ trigger = "none"
    /\ page = {}
    /\ prompt = <<>>
    /\ calls = 0
    /\ shape = <<>>
    /\ stripped = <<>>
    /\ branch = "none"
    /\ email_text = <<>>
    /\ error = "none"

----------------------------------------------------------------------------
(* One execution of the script *)

\* load_model without @st.cache_resource: the body runs in every run
load_model_uncached(c, n) == [handle |-> n + 1, attempts |-> n + 1]

\* @st.cache_resource load_model(): the body runs only on a cache miss and
\* each execution of the body builds a new pipeline object
load_model(c, n) ==
    IF c # NoHandle THEN [handle |-> c, attempts |-> n]
    ELSE [handle |-> n + 1, attempts |-> n + 1]

\* a text widget that is not rendered in a run loses its value
RenderedWidgets(w) ==
    IF w.include_signature THEN w
    ELSE [w EXCEPT !.sender_name = <<>>, !.sender_position = <<>>]

\* a guard that forgets the purpose: if generate_button
SubmittedOnClick(generate_button, purpose) == generate_button

\* if generate_button and purpose
Submitted(generate_button, purpose) == generate_button /\ purpose # <<>>

InfoPage == {"form", "info_fill"}

\* the container with the draft, and the copy button under it
DraftPage(w, copy_button) ==
    {"form", "draft", "copy_button"}
        \cup (IF w.subject # <<>> THEN {"subject_line"} ELSE {})
        \cup (IF copy_button THEN {"success"} ELSE {})

\* a handler that also renders the draft container
ExceptPageWithDraft == {"form", "error", "suggestion", "draft"}

\* except Exception as e
ExceptPage == {"form", "error", "suggestion"}

\* the try block: what the run leaves behind for an engine result
TryBlock(w, copy_button, eng) ==
    LET p    == prompt_template(w)
        out  == Expand(eng.shape, p)
        text == Strip(Replace(out, p))
        none == [page |-> ExceptPage, shape |-> <<>>,
                 stripped |-> <<>>, branch |-> "none", email_text |-> <<>>,
                 error |-> "engine"]
    IN  IF eng.raises THEN none
        ELSE IF Usable(text)
        THEN [page |-> DraftPage(w, copy_button), shape |-> eng.shape,
              stripped |-> text, branch |-> "generated",
              email_text |-> text, error |-> "none"]
        ELSE IF FallbackRaises(w)
        THEN [page |-> ExceptPage, shape |-> eng.shape,
              stripped |-> text, branch |-> "fallback", email_text |-> text,
              error |-> "NameError"]
        ELSE [page |-> DraftPage(w, copy_button), shape |-> eng.shape,
              stripped |-> text, branch |-> "fallback",
              email_text |-> FallbackText(w), error |-> "none"]

\* the script from line 1 to its end, for the widget values w0, the
\* interaction trig that started the run and the engine's behaviour eng
Script(w0, trig, eng) ==
    LET w               == RenderedWidgets(w0)
        loaded          == load_model(cache, attempts)
        generate_button == trig = "generate"
        copy_button     == trig = "copy"
    IN  /\ cache' = loaded.handle
        /\ attempts' = loaded.attempts
        /\ widgets' = w
        /\ trigger' = trig
        /\ IF Submitted(generate_button, w.purpose)
           THEN LET r == TryBlock(w, copy_button, eng)
                IN  /\ prompt' = prompt_template(w)
                    /\ calls' = 1
                    /\ page' = r.page
                    /\ shape' = r.shape
                    /\ stripped' = r.stripped
                    /\ branch' = r.branch
                    /\ email_text' = r.email_text
                    /\ error' = r.error
           ELSE /\ prompt' = <<>>
                /\ calls' = 0
                /\ page' = InfoPage
                /\ shape' = <<>>
                /\ stripped' = <<>>
                /\ branch' = "none"
                /\ email_text' = <<>>
                /\ error' = "none"

----------------------------------------------------------------------------
(* User interactions; each one re-runs the script *)

\* a run in which load_model raises: the script stops at line 19
RunLoadFails ==
    /\ cache = NoHandle
    /\ attempts < MaxFailedLoads
    /\ attempts' = attempts + 1
    /\ trigger' = "rerun"
    /\ page' = {"exception"}
    /\ prompt' = <<>>
    /\ calls' = 0
    /\ shape' = <<>>
    /\ stripped' = <<>>
    /\ branch' = "none"
    /\ email_text' = <<>>
    /\ error' = "none"
    /\ UNCHANGED <<cache, widgets>>

\* the page is opened or re-run without touching a widget
Rerun == Script(widgets, "rerun", NoEngine)

\* within a session the user types a text or clears the field; the blank
\* values are submitted under SubmitSpec
Typed(values) == {v \in values : ~IsBlank(v)}

Edits(w) ==
    {[w EXCEPT !.recipient = v] : v \in Typed(RecipientValues)}
        \cup {[w EXCEPT !.subject = v] : v \in Typed(SubjectValues)}
        \cup {[w EXCEPT !.purpose = v] : v \in Typed(PurposeValues)}
        \cup {[w EXCEPT !.tone = v] : v \in Tones}
        \cup {[w EXCEPT !.include_greeting = v] : v \in BOOLEAN}
        \cup {[w EXCEPT !.include_signature = v] : v \in BOOLEAN}
        \cup (IF w.include_signature
              THEN {[w EXCEPT !.sender_name = v] : v \in Typed(NameValues)}
                     \cup {[w EXCEPT !.sender_position = v] :
                               v \in Typed(PositionValues)}
              ELSE {})

\* the user changes one widget of the form
EditWidget ==
    /\ "form" \in page
    /\ \E w \in Edits(widgets) \ {widgets} : Script(w, "edit", NoEngine)

\* the user clicks "Generate Email"; the engine, if called, behaves as one
\* of results
Generate(results) ==
    /\ "form" \in page
    /\ \E eng \in results : Script(widgets, "generate", eng)

ClickGenerate == Generate(EngineResults(MaxSessionPieces))

\* the user clicks "Copy to Clipboard"
ClickCopy ==
    /\ "copy_button" \in page
    /\ Script(widgets, "copy", NoEngine)

Next == RunLoadFails \/ Rerun \/ EditWidget \/ ClickGenerate \/ ClickCopy

Spec == Init /\ [][Next]_vars

----------------------------------------------------------------------------
(* One submission of every form content, for every engine behaviour *)

FormContents ==
    {RenderedWidgets(w) :
        w \in [recipient : RecipientValues, subject : SubjectValues,
               purpose : PurposeValues, tone : Tones,
               include_greeting : BOOLEAN, include_signature : BOOLEAN,
               sender_name : NameValues, sender_position : PositionValues]}

\* the form has just been filled in: the state an edit leaves behind
SubmitInit ==
    /\ cache = 1
    /\ attempts = 1
    /\ widgets \in FormContents
    /\ trigger = "edit"
    /\ page = InfoPage
    /\ prompt = <<>>
    /\ calls = 0
    /\ shape = <<>>
    /\ stripped = <<>>
    /\ branch = "none"
    /\ email_text = <<>>
    /\ error = "none"

Submit == trigger = "edit" /\ Generate(EngineResults(MaxPieces))

SubmitSpec == SubmitInit /\ [][Submit]_vars

TypeOK ==
    /\ cache \in 0..(MaxFailedLoads + 1)
    /\ attempts \in 0..(MaxFailedLoads + 1)
    /\ widgets.tone \in Tones
    /\ trigger \in {"none", "rerun", "edit", "generate", "copy"}
    /\ calls \in 0..1
    /\ branch \in {"none", "generated", "fallback"}
    /\ error \in {"none", "engine", "NameError"}

----------------------------------------------------------------------------
(* Vocabulary of the properties *)

\* the engine was called in the last run and returned a text
EngineReturned == calls = 1 /\ error # "engine"

Positions(tok, s) == {i \in 1..Len(s) : s[i] = tok}

Count(tok, s) == Cardinality(Positions(tok, s))

\* the position of a token that occurs once
At(tok, s) == CHOOSE i \in Positions(tok, s) : TRUE

\* the tokens of s from position i to position j
Slice(s, i, j) == [k \in 1..(j - i + 1) |-> s[i + k - 1]]

RECURSIVE SplitLines(_)
SplitLines(s) ==
    IF Positions(NL, s) = {} THEN <<s>>
    ELSE LET i == CHOOSE k \in Positions(NL, s) :
                      \A j \in Positions(NL, s) : k <= j
         IN  <<SubSeq(s, 1, i - 1)>> \o SplitLines(SubSeq(s, i + 1, Len(s)))

NonEmpty(l) == l # <<>>

\* the lines of s that hold text, without their indentation
ContentLines(s) ==
    LET lines == SplitLines(s)
    IN  SelectSeq([i \in 1..Len(lines) |-> Strip(lines[i])], NonEmpty)

\* the shape without its first echo of the prompt
RECURSIVE DropFirstEcho(_)
DropFirstEcho(sh) ==
    IF sh = <<>> THEN <<>>
    ELSE IF Head(sh) = "echo" THEN Tail(sh)
    ELSE <<Head(sh)>> \o DropFirstEcho(Tail(sh))

IsNotEcho(piece) == piece # "echo"

\* the shape without any echo of the prompt
DropEchoes(sh) == SelectSeq(sh, IsNotEcho)

----------------------------------------------------------------------------
(* Properties *)

\* C1: a submission with a purpose, for which the engine returns and the
\* stripped text is shorter than 50 characters, ends with the fallback draft
\* (a non-empty text) on the page and never with the error message, whatever
\* the checkboxes and the optional fields are.
C1_DegenerateOutputShowsFallback ==
    (trigger = "generate" /\ widgets.purpose # <<>> /\ EngineReturned
        /\ StrLen(stripped) < 50)
    => ("draft" \in page /\ email_text # <<>> /\ "error" \notin page)

\* the lines the fallback template asks for
TemplateGreeting(w) ==
    IF w.recipient = <<>> THEN <<"Hello,">>
    ELSE <<"Dear", SP>> \o w.recipient \o <<",">>

TemplateClosing(w) ==
    IF w.tone \in {"Formal", "Professional"} THEN <<"Best regards,">>
    ELSE <<"Thanks,">>

TemplateLines(w) ==
    SelectSeq(<<Strip(TemplateGreeting(w)), Strip(w.purpose),
                TemplateClosing(w), Strip(w.sender_name),
                Strip(w.sender_position)>>, NonEmpty)

\* C2: whenever the stripped text is shorter than 50 characters the draft on
\* the page is the fallback template: greeting line ("Dear <recipient>," or
\* "Hello,"), the purpose, the closing line ("Best regards," for Formal and
\* Professional, "Thanks," otherwise), then the sender's name and position,
\* each on its own line and only when given, every part once.
C2_FallbackMatchesTemplate ==
    (EngineReturned /\ StrLen(stripped) < 50)
    => ("draft" \in page /\ ContentLines(email_text) = TemplateLines(widgets))

\* C3: when the engine returns, the draft is the stripped text itself if that
\* text has 50 characters or more, and the fallback branch is taken exactly
\* when it has fewer.
C3_PassThroughIffLongEnough ==
    EngineReturned
    => /\ StrLen(stripped) >= 50
            => (branch = "generated" /\ email_text = stripped /\ "draft" \in page)
       /\ StrLen(stripped) < 50 <=> branch = "fallback"

C3_Witness ==
    /\ EngineReturned
    /\ Count("echo", shape) = 1
    /\ StrLen(stripped) = 50
    /\ email_text = stripped

\* the request with every blank optional field emptied
Blanked(w) ==
    [w EXCEPT !.recipient = IF IsBlank(@) THEN <<>> ELSE @,
              !.subject = IF IsBlank(@) THEN <<>> ELSE @,
              !.sender_name = IF IsBlank(@) THEN <<>> ELSE @,
              !.sender_position = IF IsBlank(@) THEN <<>> ELSE @]

\* C4: the prompt built for a request is the prompt built for the same
\* request with its whitespace-only optional fields replaced by empty ones.
C4_BlankFieldTreatedAsAbsent ==
    prompt # <<>> => prompt = prompt_template(Blanked(widgets))

MarkBase      == "Write a"
MarkGreeting  == "that starts with a greeting to"
MarkPurpose   == "about the following:"
MarkSubject   == "The email subject is:"
MarkStructure ==
    "The email should be professional, well-structured with clear paragraphs."
MarkSignature == "End the email with a proper closing and signature:"

\* the text that follows the clause opened by mark, up to the next clause
ClauseEnd(mark, s) ==
    LET later == {i \in 1..Len(s) :
                     /\ i > At(mark, s)
                     /\ s[i] \in {MarkPurpose, MarkSubject, MarkStructure,
                                  MarkSignature}}
    IN  IF later = {} THEN Len(s)
        ELSE (CHOOSE i \in later : \A j \in later : i <= j) - 2

ClauseText(mark, s) == Slice(s, At(mark, s) + 2, ClauseEnd(mark, s))

\* C5: the prompt of a request with a purpose is made of the base clause
\* "Write a <tone lowercased> email", the greeting clause (only with
\* include_greeting and a recipient), the purpose clause with the purpose
\* verbatim, the subject clause quoting the subject (only with a subject),
\* the fixed structure clause, and the signature clause (only with
\* include_signature and a sender name; "name, position" if a position is
\* given), in this order, each at most once.
C5_PromptClauseOrder ==
    prompt # <<>> =>
        LET w == widgets
            p == prompt
        IN  /\ Count(MarkBase, p) = 1
            /\ Count(MarkPurpose, p) = 1
            /\ Count(MarkStructure, p) = 1
            /\ Count(MarkGreeting, p) = IF HasGreeting(w) THEN 1 ELSE 0
            /\ Count(MarkSubject, p) = IF w.subject # <<>> THEN 1 ELSE 0
            /\ Count(MarkSignature, p)
                   = IF w.include_signature /\ w.sender_name # <<>> THEN 1 ELSE 0
            /\ At(MarkBase, p) < At(MarkPurpose, p)
            /\ At(MarkPurpose, p) < At(MarkStructure, p)
            /\ Slice(p, At(MarkBase, p), At(MarkBase, p) + 4)
                   = <<"Write a", SP, Lower(w.tone), SP, "email">>
            /\ Count(MarkGreeting, p) = 1 =>
                   /\ At(MarkBase, p) < At(MarkGreeting, p)
                   /\ At(MarkGreeting, p) < At(MarkPurpose, p)
                   /\ ClauseText(MarkGreeting, p) = w.recipient
            /\ ClauseText(MarkPurpose, p) = w.purpose \o <<".">>
            /\ Count(MarkSubject, p) = 1 =>
                   /\ At(MarkPurpose, p) < At(MarkSubject, p)
                   /\ At(MarkSubject, p) < At(MarkStructure, p)
                   /\ ClauseText(MarkSubject, p) = <<"'">> \o w.subject \o <<"'.">>
            /\ Count(MarkSignature, p) = 1 =>
                   /\ At(MarkStructure, p) < At(MarkSignature, p)
                   /\ ClauseText(MarkSignature, p)
                          = IF w.sender_position # <<>>
                            THEN w.sender_name \o <<",", SP>>
                                     \o w.sender_position \o <<".">>
                            ELSE w.sender_name \o <<".">>
            /\ Count(MarkSignature, p) = 0 =>
                   At(MarkStructure, p) = Len(p)

C5_Witness ==
    /\ prompt # <<>>
    /\ Count(MarkGreeting, prompt) = 1
    /\ Count(MarkSubject, prompt) = 1
    /\ Count(MarkSignature, prompt) = 1
    /\ widgets.sender_position = <<"Marketing Manager">>

\* C6: a click on Generate without a purpose builds no prompt, calls the
\* engine not at all and shows the fill-in message only; the engine is called
\* only in a run started by a click on Generate with a purpose.
C6_NoPurposeNoGeneration ==
    /\ (trigger = "generate" /\ widgets.purpose = <<>>)
           => (prompt = <<>> /\ calls = 0 /\ page = {"form", "info_fill"})
    /\ calls > 0 => (trigger = "generate" /\ widgets.purpose # <<>>)

C6_Witness ==
    /\ trigger = "generate"
    /\ widgets.purpose = <<>>
    /\ "info_fill" \in page

\* C7: a run in which the engine raises shows the error message and the
\* suggestion, shows no draft, has called the engine once, and leaves the
\* form and the loaded model ready for the next submission.
C7_EngineErrorContained ==
    error = "engine"
    => /\ calls = 1
       /\ {"error", "suggestion"} \subseteq page
       /\ page \cap {"draft", "subject_line", "copy_button", "success"} = {}
       /\ email_text = <<>>
       /\ "form" \in page
       /\ cache # NoHandle

C7_Witness == error = "engine" /\ "error" \in page

\* C8: the cached model handle is set before a form is shown or the engine
\* is called, and once set neither it nor the number of executions of
\* load_model ever changes, whatever the interactions are.
C8_ModelLoadedOnce ==
    /\ []((calls > 0 \/ "form" \in page) => cache # NoHandle)
    /\ [][cache # NoHandle => (cache' = cache /\ attempts' = attempts)]_vars

C8_Witness == error = "engine" /\ cache # NoHandle /\ attempts > 1

\* C9 as stated: only the first occurrence of the prompt is removed from the
\* raw output, later occurrences stay in the text that is trimmed and
\* measured.
C9_OnlyFirstOccurrenceRemoved ==
    EngineReturned
    => stripped = Strip(Expand(DropFirstEcho(shape), prompt))

\* C9 amended: every occurrence of the prompt is removed from the raw
\* output; what is trimmed and measured holds none of them.
C9_EveryOccurrenceRemoved ==
    EngineReturned
    => stripped = Strip(Expand(DropEchoes(shape), prompt))

C9_Witness ==
    /\ EngineReturned
    /\ Count("echo", shape) = 2
    /\ branch = "fallback"

\* C10: the run started by a click on "Copy to Clipboard" shows the success
\* acknowledgment.
C10_CopyClickAcknowledged ==
    trigger = "copy" => "success" \in page

====
